---- MODULE Spec2Model ----
(***************************************************************************)
(* markstruct: in-place rendering of the string fields of a struct.        *)
(*                                                                         *)
(* A Go value seen through reflection is modelled as a record with a       *)
(* `kind` field (reflect.Kind) and the content of that kind.  A            *)
(* reflect.Value is such a value together with its flags: `addr`           *)
(* (addressable) and `ro` (reached through an unexported field).           *)
(* The traversal is the recursive function of the source; every call       *)
(* returns the pair (changed, err) of the source together with the value   *)
(* as the call leaves it and the trace of render invocations and writes    *)
(* it made, in order.  Record graphs are trees: no storage is shared       *)
(* between two fields.                                                     *)
(***************************************************************************)
EXTENDS Integers, Sequences, FiniteSets, TLC

VARIABLES s, s0, markdown, pc, op, ret, trace

vars == <<s, s0, markdown, pc, op, ret, trace>>

\* ------------------------------------------------------------------ bounds
\* longest string slice of the input records
MaxLen == 2
\* number of distinct keys a map of the input records may hold
MaxKeys == 2
\* number of record levels below the root record
MaxDepth == 2

\* ------------------------------------------------------------------ errors
Nil == "nil"
ErrInvalidType == "invalid type"
\* fmt.Errorf("%w: <what>", ErrInvalidType)
Errorf(what) == [is |-> ErrInvalidType, msg |-> what]
\* an error raised by the Markdown renderer
RenderErr(msg) == [is |-> "render", msg |-> msg]
NoErr == [is |-> Nil, msg |-> ""]
isInvalidType(err) == err.is = ErrInvalidType

\* ------------------------------------------------------------------ values
Invalid == [kind |-> "invalid"]
Str(t) == [kind |-> "string", s |-> t]
IntV(n) == [kind |-> "int", n |-> n]
BoolV(b) == [kind |-> "bool", b |-> b]
Ptr(e) == [kind |-> "ptr", elem |-> e]
NilPtr == Ptr(Invalid)
Slice(q) == [kind |-> "slice", isnil |-> FALSE, elems |-> q]
NilSlice == [kind |-> "slice", isnil |-> TRUE, elems |-> <<>>]
Array(q) == [kind |-> "array", elems |-> q]
Map(vk, m) == [kind |-> "map", vkind |-> vk, isnil |-> FALSE, m |-> m]
NilMap(vk) == [kind |-> "map", vkind |-> vk, isnil |-> TRUE, m |-> <<>>]
\* a struct field: the value of its `markdown` tag ("" when absent, as
\* reflect.StructTag.Get returns it), whether its name is exported, its value
Fld(tag, exported, v) == [tag |-> tag, exported |-> exported, val |-> v]
Struct(fs) == [kind |-> "struct", fields |-> fs]

\* reflect.Value flags
Flag(addr, ro) == [addr |-> addr, ro |-> ro]
IsValid(v) == v.kind # "invalid"
CanSet(fl) == fl.addr /\ ~fl.ro
\* flags of v.Field(i), v.Elem() of a pointer, v.Index(i) of a slice / array
FieldFlag(fl, fd) == Flag(fl.addr, fl.ro \/ ~fd.exported)
ElemFlag(fl) == Flag(TRUE, fl.ro)
IndexFlag(v, fl) == IF v.kind = "slice" THEN Flag(TRUE, fl.ro) ELSE Flag(fl.addr, fl.ro)

\* ------------------------------------------------------------------ tags
structTagKey == "markdown"

\* strings.ToLower, on the letters of the ASCII alphabet
LowerChar(c) ==
    CASE c = "A" -> "a" [] c = "B" -> "b" [] c = "C" -> "c" [] c = "D" -> "d"
      [] c = "E" -> "e" [] c = "F" -> "f" [] c = "G" -> "g" [] c = "H" -> "h"
      [] c = "I" -> "i" [] c = "J" -> "j" [] c = "K" -> "k" [] c = "L" -> "l"
      [] c = "M" -> "m" [] c = "N" -> "n" [] c = "O" -> "o" [] c = "P" -> "p"
      [] c = "Q" -> "q" [] c = "R" -> "r" [] c = "S" -> "s" [] c = "T" -> "t"
      [] c = "U" -> "u" [] c = "V" -> "v" [] c = "W" -> "w" [] c = "X" -> "x"
      [] c = "Y" -> "y" [] c = "Z" -> "z"
      [] OTHER -> c
ToLower(str) == [i \in DOMAIN str |-> LowerChar(str[i])]

\* faulty variant: any tag value that is present enables the field
isMarkdownTagEnabled_anyValue(tagval) == tagval # <<>>

\* faulty variant: the tag value is compared as written, not lower-cased
isMarkdownTagEnabled_caseSensitive(tagval) ==
    tagval \in { <<"o", "n">>, <<"y", "e", "s">>, <<"1">>, <<"y">>,
                 <<"e", "n", "a", "b", "l", "e">> }

isMarkdownTagEnabled(tagval) ==
    ToLower(tagval) \in { <<"o", "n">>, <<"y", "e", "s">>, <<"1">>, <<"y">>,
                          <<"e", "n", "a", "b", "l", "e">> }

isStructFieldTagEnabled(structval, fieldIdx) ==
    IF structval.kind # "struct" THEN FALSE
    ELSE isMarkdownTagEnabled(structval.fields[fieldIdx].tag)

isValidSettable(v, fl) == IsValid(v) /\ CanSet(fl)

\* faulty variant: a pointer to a struct is not taken for a struct
isStruct_noPointer(v) == IsValid(v) /\ v.kind = "struct"

isStruct(v) ==
    IF ~IsValid(v) THEN FALSE
    ELSE IF v.kind = "struct" THEN TRUE
    ELSE IF v.kind = "ptr" THEN IsValid(v.elem) /\ v.elem.kind = "struct"
    ELSE FALSE

\* ------------------------------------------------------------------ renderer
\* The Markdown renderers a converter may be bound to.  "goldmark" never
\* fails; "picky" fails on the texts "x" and "y", each with its own error,
\* after writing part of its output; "exploding" fails on every text.
Markdowns == {"goldmark", "picky", "exploding"}

Html(t) == CASE t = "a" -> "A" [] t = "x" -> "X" [] t = "y" -> "Y" [] OTHER -> t

\* markdown.Convert(source, w): what was written to w, and the error
Convert(md, source) ==
    CASE md = "exploding" -> [out |-> "", err |-> RenderErr("BOOM")]
      [] md = "picky" /\ source \in {"x", "y"} ->
            [out |-> "part", err |-> RenderErr(source)]
      [] OTHER -> [out |-> Html(source), err |-> NoErr]

\* ------------------------------------------------------------------ traversal
\* the processor of one call: fieldProcessor plus the order in which this
\* call's reflect.Value.MapKeys hands out the keys (unspecified in Go)
FieldProcessor(md, allFields, validateOnly, ord) ==
    [ConvertAllFields |-> allFields, ValidateOnly |-> validateOnly,
     markdown |-> md, ord |-> ord]

\* result of one traversal step: the source's (changed, err), the value as
\* the step leaves it, and the events of the step
Res(changed, err, v, log) == [changed |-> changed, err |-> err, v |-> v, log |-> log]

RenderEv(path, in, r) == [ev |-> "render", path |-> path, in |-> in, out |-> r.out, err |-> r.err]
SetEv(path, in, out) == [ev |-> "set", path |-> path, in |-> in, out |-> out, err |-> NoErr]

renderString(f, str) == Convert(f.markdown, str)

\* faulty variant: the rendered text is written back in validate mode too
convertString_alwaysSets(f, v, fl, path) ==
    IF ~isValidSettable(v, fl) THEN Res(FALSE, NoErr, v, <<>>)
    ELSE LET value == v.s
             r == renderString(f, value)
         IN IF r.err # NoErr
            THEN Res(FALSE, r.err, v, <<RenderEv(path, value, r)>>)
            ELSE Res(value # r.out, NoErr, Str(r.out),
                     <<RenderEv(path, value, r), SetEv(path, value, r.out)>>)

\* faulty variant: what the renderer wrote before it failed is written back
convertString_keepsPartial(f, v, fl, path) ==
    IF ~isValidSettable(v, fl) THEN Res(FALSE, NoErr, v, <<>>)
    ELSE LET value == v.s
             r == renderString(f, value)
         IN IF ~f.ValidateOnly
            THEN Res(r.err = NoErr /\ value # r.out, r.err, Str(r.out),
                     <<RenderEv(path, value, r)>>)
            ELSE Res(r.err = NoErr /\ value # r.out, r.err, v, <<RenderEv(path, value, r)>>)

convertString(f, v, fl, path) ==
    IF ~isValidSettable(v, fl) THEN Res(FALSE, NoErr, v, <<>>)
    ELSE LET value == v.s
             r == renderString(f, value)
         IN IF r.err # NoErr
            THEN Res(FALSE, r.err, v, <<RenderEv(path, value, r)>>)
            ELSE IF ~f.ValidateOnly
                 THEN Res(value # r.out, NoErr, Str(r.out),
                          <<RenderEv(path, value, r), SetEv(path, value, r.out)>>)
                 ELSE Res(value # r.out, NoErr, v, <<RenderEv(path, value, r)>>)

\* v.MapKeys(): the keys of the map in this call's order
MapKeys(f, v) == SelectSeq(f.ord, LAMBDA k : k \in DOMAIN v.m)

\* the loop of convertMap from position i of keys; it stops at the first
\* render error (break)
RECURSIVE mapLoop(_, _, _, _, _, _)
\* faulty variant: changed is overwritten by each key instead of accumulated
mapLoop_lastKeyDecides(f, keys, path, i, v, acc) ==
    IF i > Len(keys) THEN [acc EXCEPT !.v = v]
    ELSE LET kval == keys[i]
             value == v.m[kval]
             rawstr == value.s
             r == renderString(f, rawstr)
             ev == RenderEv(Append(path, kval), rawstr, r)
         IN IF r.err # NoErr
            THEN Res(acc.changed, NoErr, v, Append(acc.log, ev))
            ELSE IF rawstr # r.out /\ ~f.ValidateOnly
                 THEN mapLoop(f, keys, path, i + 1,
                              [v EXCEPT !.m[kval] = Str(r.out)],
                              Res(TRUE, NoErr, v,
                                  acc.log \o <<ev, SetEv(Append(path, kval), rawstr, r.out)>>))
                 ELSE mapLoop(f, keys, path, i + 1, v,
                              Res(rawstr # r.out, NoErr, v, Append(acc.log, ev)))

mapLoop(f, keys, path, i, v, acc) ==
    IF i > Len(keys) THEN [acc EXCEPT !.v = v]
    ELSE LET kval == keys[i]
             value == v.m[kval]
             rawstr == value.s
             r == renderString(f, rawstr)
             ev == RenderEv(Append(path, kval), rawstr, r)
         IN IF r.err # NoErr
            THEN Res(acc.changed, NoErr, v, Append(acc.log, ev))
            ELSE IF rawstr # r.out
                 THEN IF ~f.ValidateOnly
                      THEN mapLoop(f, keys, path, i + 1,
                                   [v EXCEPT !.m[kval] = Str(r.out)],
                                   Res(TRUE, NoErr, v,
                                       acc.log \o <<ev, SetEv(Append(path, kval), rawstr, r.out)>>))
                      ELSE mapLoop(f, keys, path, i + 1, v,
                                   Res(TRUE, NoErr, v, Append(acc.log, ev)))
                 ELSE mapLoop(f, keys, path, i + 1, v,
                              Res(acc.changed, NoErr, v, Append(acc.log, ev)))

\* The err the function returns is the one declared before the loop; the
\* loop's `mdstr, err := ...` declares its own, so the returned one stays nil.
convertMap(f, v, fl, path) ==
    IF v.kind # "map" THEN Res(FALSE, Errorf("expect map"), v, <<>>)
    ELSE IF v.vkind # "string" THEN Res(FALSE, NoErr, v, <<>>)
    ELSE IF ~CanSet(fl) THEN Res(FALSE, NoErr, v, <<>>)
    ELSE mapLoop(f, MapKeys(f, v), path, 1, v, Res(FALSE, NoErr, v, <<>>))

RECURSIVE convert(_, _, _, _)
RECURSIVE convertSlice(_, _, _, _)
RECURSIVE convertStruct(_, _, _, _)

\* the loop of convertSlice from index i; it stops at the first element
\* whose conversion returns an error (break)
RECURSIVE sliceLoop(_, _, _, _, _, _)
sliceLoop(f, fl, path, i, v, acc) ==
    IF i > Len(v.elems) THEN [acc EXCEPT !.v = v]
    ELSE LET entry == v.elems[i]
             r == convert(f, entry, IndexFlag(v, fl), Append(path, i))
             v2 == [v EXCEPT !.elems[i] = r.v]
             acc2 == Res(r.changed \/ acc.changed, NoErr, v2, acc.log \o r.log)
         IN IF r.err # NoErr THEN acc2
            ELSE sliceLoop(f, fl, path, i + 1, v2, acc2)

\* As in convertMap, `fchanged, err := f.convert(entry)` declares the loop's
\* own err: the err returned is the outer one, which stays nil.
convertSlice(f, v, fl, path) ==
    IF v.kind # "slice" THEN Res(FALSE, Errorf("expect string slice"), v, <<>>)
    ELSE sliceLoop(f, fl, path, 1, v, Res(FALSE, NoErr, v, <<>>))

\* the loop of convertStruct from field i; here err is assigned, not
\* redeclared, so the error that breaks the loop is the one returned
RECURSIVE structLoop(_, _, _, _, _, _)
structLoop(f, fl, path, i, v, acc) ==
    IF i > Len(v.fields) THEN [acc EXCEPT !.v = v]
    ELSE LET fd == v.fields[i]
             field == fd.val
         IN IF ~isStruct(field) /\ ~f.ConvertAllFields /\ ~isStructFieldTagEnabled(v, i)
            THEN structLoop(f, fl, path, i + 1, v, acc)
            ELSE LET r == convert(f, field, FieldFlag(fl, fd), Append(path, i))
                     v2 == [v EXCEPT !.fields[i].val = r.v]
                     acc2 == Res(r.changed \/ acc.changed, r.err, v2, acc.log \o r.log)
                 IN IF r.err # NoErr THEN acc2
                    ELSE structLoop(f, fl, path, i + 1, v2, acc2)

\* faulty variant: on an error the struct reports changed = false
convertStruct_falseOnError(f, v, fl, path) ==
    IF v.kind # "struct" THEN Res(FALSE, Errorf("expect struct"), v, <<>>)
    ELSE LET r == structLoop(f, fl, path, 1, v, Res(FALSE, NoErr, v, <<>>))
         IN IF r.err # NoErr THEN [r EXCEPT !.changed = FALSE] ELSE r

\* faulty variant: a value that is no struct is skipped without an error
convertStruct_skipsNonStruct(f, v, fl, path) ==
    IF v.kind # "struct" THEN Res(FALSE, NoErr, v, <<>>)
    ELSE structLoop(f, fl, path, 1, v, Res(FALSE, NoErr, v, <<>>))

convertStruct(f, v, fl, path) ==
    IF v.kind # "struct" THEN Res(FALSE, Errorf("expect struct"), v, <<>>)
    ELSE structLoop(f, fl, path, 1, v, Res(FALSE, NoErr, v, <<>>))

\* faulty variant: a nil pointer is an error
convert_nilPointerFails(f, v, fl, path) ==
    CASE v.kind = "ptr" /\ ~IsValid(v.elem) -> Res(FALSE, Errorf("nil pointer"), v, <<>>)
      [] v.kind = "ptr" /\ IsValid(v.elem) ->
            LET r == convert(f, v.elem, ElemFlag(fl), Append(path, 0))
            IN [r EXCEPT !.v = Ptr(r.v)]
      [] v.kind \in {"slice", "array"} -> convertSlice(f, v, fl, path)
      [] v.kind = "map" -> convertMap(f, v, fl, path)
      [] v.kind = "struct" -> convertStruct(f, v, fl, path)
      [] v.kind = "string" -> convertString(f, v, fl, path)
      [] OTHER -> Res(FALSE, NoErr, v, <<>>)

convert(f, v, fl, path) ==
    CASE v.kind = "ptr" ->
            LET r == convert(f, v.elem, ElemFlag(fl), Append(path, 0))
            IN [r EXCEPT !.v = Ptr(r.v)]
      [] v.kind \in {"slice", "array"} -> convertSlice(f, v, fl, path)
      [] v.kind = "map" -> convertMap(f, v, fl, path)
      [] v.kind = "struct" -> convertStruct(f, v, fl, path)
      [] v.kind = "string" -> convertString(f, v, fl, path)
      [] OTHER -> Res(FALSE, NoErr, v, <<>>)

\* converter.process: sv is the interface value handed to the public
\* operation; an untyped nil is the invalid Value
process(md, sv, allFields, validateOnly, ord) ==
    IF ~IsValid(sv) THEN Res(FALSE, NoErr, sv, <<>>)
    ELSE IF sv.kind # "ptr" THEN Res(FALSE, Errorf("expect pointer to struct"), sv, <<>>)
    ELSE LET elem == sv.elem
         IN IF ~isValidSettable(elem, Flag(TRUE, FALSE)) THEN Res(FALSE, NoErr, sv, <<>>)
            ELSE LET fieldproc == FieldProcessor(md, allFields, validateOnly, ord)
                     r == convertStruct(fieldproc, elem, Flag(TRUE, FALSE), <<>>)
                 IN [r EXCEPT !.v = Ptr(r.v)]

\* ------------------------------------------------------------------ inputs
\* tag values of the input records: absent, `markdown:"off"`, `markdown:"on"`
TagAbsent == <<>>
TagOff == <<"o", "f", "f">>
TagOn == <<"o", "n">>
Tags == {TagAbsent, TagOff, TagOn}

\* texts of the input records: "a" renders to "A", "A" to itself, "x" and
\* "y" are the texts the picky renderer fails on
Texts == {"a", "A", "x", "y"}
SliceTexts == {"a", "A", "x"}
Keys == 1..MaxKeys

StrSeqs == UNION {[1..k -> {Str(t) : t \in SliceTexts}] : k \in 0..MaxLen}
StrMaps == UNION {[D -> {Str(t) : t \in SliceTexts}] : D \in SUBSET Keys}

\* values of the fields that hold no record
LeafVals ==
    {Str(t) : t \in Texts}
    \cup {NilPtr, Ptr(Str("a")), Ptr(Str("x")), Ptr(Ptr(Str("a")))}
    \cup {NilSlice} \cup {Slice(q) : q \in StrSeqs}
    \cup {Ptr(NilSlice), Ptr(Slice(<<Str("a")>>)), Ptr(Slice(<<Str("x"), Str("a")>>))}
    \cup {NilMap("string")} \cup {Map("string", m) : m \in StrMaps}
    \cup {Map("int", <<IntV(7)>>), Slice(<<IntV(7)>>), IntV(7), BoolV(TRUE)}
    \cup {Array(<<Str("a")>>), Array(<<IntV(7)>>)}

\* the string fields a root record pairs another field with
LastFields == {Fld(TagOn, TRUE, Str("a")), Fld(TagOn, TRUE, Str("x")),
               Fld(TagOn, TRUE, Str("y")), Fld(TagAbsent, TRUE, Str("a"))}

\* the string fields of the nested records
InnerFields ==
    {Fld(tg, TRUE, Str(t)) : tg \in Tags, t \in {"a", "x"}}
    \cup {Fld(TagAbsent, TRUE, NilPtr)}

\* records of nesting depth at most d
RECURSIVE Records(_)
Records(d) ==
    IF d = 0 THEN {}
    ELSE {Struct(<<fd>>) : fd \in InnerFields}
         \cup {Struct(<<fd, Fld(TagOn, TRUE, Str("a"))>>) : fd \in InnerFields}
         \cup {Struct(<<Fld(TagAbsent, TRUE, r)>>) : r \in Records(d - 1)}
         \cup {Struct(<<Fld(TagOff, TRUE, Ptr(r)), Fld(TagOn, TRUE, Str("a"))>>) :
                  r \in Records(d - 1)}

\* the fields of the root record that hold no record
LeafFields ==
    {Fld(tg, TRUE, v) : tg \in Tags, v \in LeafVals}
    \cup {Fld(TagOn, FALSE, v) :
            v \in {Str("a"), Ptr(Str("a")), Slice(<<Str("a")>>), Map("string", <<Str("a")>>),
                   Array(<<Str("a")>>)}}

\* the fields of the root record that hold a record, or a pointer to one
RecordFields(d) ==
    {Fld(tg, TRUE, r) : tg \in Tags, r \in Records(d)}
    \cup {Fld(tg, TRUE, Ptr(r)) : tg \in Tags, r \in Records(d)}

RootFields ==
    LeafFields \cup RecordFields(MaxDepth) \cup {Fld(TagOn, FALSE, r) : r \in Records(1)}

\* the root records: one field, or one field before or after a string field
PairedFields == LeafFields \cup {fd \in RecordFields(1) : fd.tag = TagAbsent}

RootRecords ==
    {Struct(<<fd>>) : fd \in RootFields}
    \cup {Struct(<<fd, ld>>) : fd \in PairedFields, ld \in LastFields}
    \cup {Struct(<<ld, fd>>) : fd \in PairedFields, ld \in LastFields}

\* what a caller may hand to a public operation
Inputs ==
    {Invalid, NilPtr, Str("a"), Slice(<<Str("a")>>), NilSlice,
     Struct(<<Fld(TagOn, TRUE, Str("a"))>>),
     Ptr(Str("a")), Ptr(NilSlice), Ptr(Slice(<<Str("a")>>)),
     Ptr(Ptr(Struct(<<Fld(TagOn, TRUE, Str("a"))>>)))}
    \cup {Ptr(r) : r \in RootRecords}

\* the orders MapKeys may hand the keys out in
Orders == {q \in [1..MaxKeys -> Keys] : \A i, j \in 1..MaxKeys : q[i] = q[j] => i = j}

\* ------------------------------------------------------------------ machine
NoRet == [changed |-> FALSE, err |-> NoErr]

Init ==
    /\ s \in Inputs
    /\ s0 = s
    /\ markdown \in Markdowns
    /\ pc = "ready"
    /\ op = "none"
    /\ ret = NoRet
    /\ trace = <<>>

\* one call of a public operation of the converter bound to `markdown`
Call(name, allFields, validateOnly) ==
    /\ pc = "ready"
    /\ \E ord \in Orders :
          LET r == process(markdown, s, allFields, validateOnly, ord)
          IN /\ s' = r.v
             /\ ret' = [changed |-> r.changed, err |-> r.err]
             /\ trace' = r.log
    /\ s0' = s
    /\ op' = name
    /\ pc' = "returned"
    /\ UNCHANGED markdown

ConvertFields == Call("ConvertFields", FALSE, FALSE)
ConvertAllFields == Call("ConvertAllFields", TRUE, FALSE)
ValidateFields == Call("ValidateFields", FALSE, TRUE)
ValidateAllFields == Call("ValidateAllFields", TRUE, TRUE)

Next ==
    \/ ConvertFields
    \/ ConvertAllFields
    \/ ValidateFields
    \/ ValidateAllFields

Spec == Init /\ [][Next]_vars

\* ------------------------------------------------------------------ properties
Returned == pc = "returned"
IsValidate == op \in {"ValidateFields", "ValidateAllFields"}
IsConvert == op \in {"ConvertFields", "ConvertAllFields"}
TaggedOnly == op \in {"ConvertFields", "ValidateFields"}
\* the shape of v is a record, or a non-nil pointer to a record
HoldsRecord(v) == v.kind = "struct" \/ (v.kind = "ptr" /\ v.elem.kind = "struct")
\* the caller handed a non-nil pointer to a record
RootIsRecord(sv) == sv.kind = "ptr" /\ sv.elem.kind = "struct"
\* the annotation of a field of the input records is enabled
AnnotationOn(tag) == tag = TagOn

PrefixOf(p, q) == Len(p) <= Len(q) /\ SubSeq(q, 1, Len(p)) = p
\* indexes of the render invocations of the call, and those that failed
RenderIdx == {i \in DOMAIN trace : trace[i].ev = "render"}
FailedIdx == {i \in RenderIdx : trace[i].err # NoErr}
DifferIdx == {i \in RenderIdx : trace[i].err = NoErr /\ trace[i].out # trace[i].in}
RenderedAt(p) == \E i \in RenderIdx : trace[i].path = p
RenderedUnder(p) == \E i \in RenderIdx : PrefixOf(p, trace[i].path)

\* C1: a validate call (ValidateFields, ValidateAllFields) leaves every text,
\* slice element and map entry reachable from the root as it was, whatever
\* the renderer does and whatever (changed, err) the call returns.
C1_ValidateNeverMutates ==
    (Returned /\ IsValidate) => s = s0

\* a validate call that rendered a text to another text and reported it
C1_Witness ==
    /\ Returned /\ IsValidate
    /\ ret.changed /\ DifferIdx # {}
    /\ s = s0

\* C2 as claimed: a call that returns an error returns changed = false.
C2_Original ==
    (Returned /\ ret.err # NoErr) => ret.changed = FALSE

\* C2 as amended: a call that returns an error returns changed = true
\* exactly when a render invocation made before the failure in that call
\* gave a text different from its input.
C2_ChangedOnError ==
    (Returned /\ ret.err # NoErr) => (ret.changed <=> DifferIdx # {})

\* a convert call that rewrote a field, then failed, and returned changed
C2_Witness ==
    /\ Returned /\ op = "ConvertFields"
    /\ ret.err # NoErr /\ ret.changed
    /\ s # s0

\* C3: when a render invocation of the call fails, the call returns the
\* error of the first failing invocation.
C3_FirstRenderErrorReturned ==
    (Returned /\ FailedIdx # {}) =>
        \E i \in FailedIdx :
            /\ \A j \in FailedIdx : i <= j
            /\ ret.err = trace[i].err

\* C4: after the first failing render invocation of a call nothing more is
\* rendered or written in that call.
C4_FailFast ==
    Returned => \A i \in FailedIdx : \A j \in DOMAIN trace : j <= i

\* C5: ConvertFields leaves every field that holds no record and has no
\* enabled tag as it was, and renders nothing of its content.
RECURSIVE UntaggedFrame(_, _, _)
UntaggedFrame(b, a, path) ==
    \A i \in DOMAIN b.fields :
        LET fb == b.fields[i]
            fa == a.fields[i]
            p == Append(path, i)
        IN IF HoldsRecord(fb.val)
           THEN IF fb.val.kind = "struct"
                THEN UntaggedFrame(fb.val, fa.val, p)
                ELSE UntaggedFrame(fb.val.elem, fa.val.elem, Append(p, 0))
           ELSE ~AnnotationOn(fb.tag) =>
                    (fa.val = fb.val /\ ~RenderedUnder(p))

C5_UntaggedUntouched ==
    (Returned /\ op = "ConvertFields" /\ RootIsRecord(s0)) =>
        UntaggedFrame(s0.elem, s.elem, <<>>)

\* ConvertFields rewrote the tagged field of a record whose other field,
\* tagged off and holding a text that renders to another one, is as before
C5_Witness ==
    /\ Returned /\ op = "ConvertFields" /\ markdown = "goldmark"
    /\ s0 = Ptr(Struct(<<Fld(TagOff, TRUE, Slice(<<Str("a")>>)), Fld(TagOn, TRUE, Str("a"))>>))
    /\ s = Ptr(Struct(<<Fld(TagOff, TRUE, Slice(<<Str("a")>>)), Fld(TagOn, TRUE, Str("A"))>>))

\* the record with every settable text of a supported shape rendered by
\* the renderer that never fails, and everything else as it is
RECURSIVE AllRendered(_, _)
AllRendered(v, ro) ==
    CASE v.kind = "string" -> IF ro THEN v ELSE Str(Html(v.s))
      [] v.kind = "ptr" -> IF IsValid(v.elem) THEN Ptr(AllRendered(v.elem, ro)) ELSE v
      [] v.kind = "slice" ->
            [v EXCEPT !.elems = [i \in DOMAIN v.elems |-> AllRendered(v.elems[i], ro)]]
      [] v.kind = "map" ->
            IF v.vkind = "string" /\ ~ro
            THEN [v EXCEPT !.m = [k \in DOMAIN v.m |-> Str(Html(v.m[k].s))]]
            ELSE v
      [] v.kind = "struct" ->
            [v EXCEPT !.fields = [i \in DOMAIN v.fields |->
                [v.fields[i] EXCEPT !.val = AllRendered(v.fields[i].val, ro \/ ~v.fields[i].exported)]]]
      [] OTHER -> v

\* C6: after ConvertAllFields with a renderer that does not fail, every
\* settable text of a supported shape holds its rendered form, whatever the
\* tags, and the fields of other shapes are unchanged.
C6_AllFieldsRendered ==
    (Returned /\ op = "ConvertAllFields" /\ markdown = "goldmark" /\ RootIsRecord(s0)) =>
        s.elem = AllRendered(s0.elem, FALSE)

\* C7: a validate call returns the (changed, err) that the matching convert
\* call returns on an identical copy of the record.
C7_ValidateReturnsAsConvert ==
    (Returned /\ IsValidate) =>
        \A ord \in Orders :
            LET r == process(markdown, s0, op = "ValidateAllFields", FALSE, ord)
            IN r.changed = ret.changed /\ r.err = ret.err

\* C8: an input that is neither nil nor a pointer, or a non-nil pointer to
\* something that is no struct, gives (false, ErrInvalidType), renders
\* nothing and is left as it was.
C8_InvalidRoot ==
    (/\ Returned
     /\ IsValid(s0)
     /\ \/ s0.kind # "ptr"
        \/ IsValid(s0.elem) /\ s0.elem.kind # "struct") =>
        /\ ret.changed = FALSE
        /\ isInvalidType(ret.err)
        /\ trace = <<>>
        /\ s = s0

\* a call on a non-nil pointer to a string slice returned ErrInvalidType
C8_Witness ==
    /\ Returned
    /\ s0 = Ptr(Slice(<<Str("a")>>))
    /\ ret.changed = FALSE /\ isInvalidType(ret.err)
    /\ s = s0

\* a nil pointer, a nil slice or a nil map
IsNil(v) ==
    \/ v.kind = "ptr" /\ ~IsValid(v.elem)
    \/ v.kind \in {"slice", "map"} /\ v.isnil

\* the field is a settable string the policy of the call makes eligible
EligibleString(fd, ro) ==
    /\ fd.val.kind = "string"
    /\ fd.exported /\ ~ro
    /\ (~TaggedOnly \/ AnnotationOn(fd.tag))

\* in the records reached through record fields: a nil field is as before
\* and nothing under it is rendered; when the call returns no error, the
\* eligible string that follows it is rendered
RECURSIVE NilFieldsSkipped(_, _, _, _)
NilFieldsSkipped(b, a, path, ro) ==
    \A i \in DOMAIN b.fields :
        LET fb == b.fields[i]
            fa == a.fields[i]
            p == Append(path, i)
            ro2 == ro \/ ~fb.exported
        IN /\ IsNil(fb.val) =>
                /\ fa.val = fb.val
                /\ ~RenderedUnder(p)
                /\ (/\ ret.err = NoErr
                    /\ i + 1 \in DOMAIN b.fields
                    /\ EligibleString(b.fields[i + 1], ro)) =>
                        RenderedAt(Append(path, i + 1))
           /\ HoldsRecord(fb.val) =>
                IF fb.val.kind = "struct"
                THEN NilFieldsSkipped(fb.val, fa.val, p, ro2)
                ELSE NilFieldsSkipped(fb.val.elem, fa.val.elem, Append(p, 0), ro2)

\* C9: an absent reference is a no-op at every level.  A nil root, untyped
\* or a typed nil pointer, gives (false, nil); a nil pointer, nil slice or
\* nil map field at any depth stays nil, has nothing rendered and does not
\* keep the field after it from being rendered; a record of nil fields alone
\* gives (false, nil).
C9_NilIsNoOp ==
    Returned =>
        /\ (~IsValid(s0) \/ s0 = NilPtr) => (ret = NoRet /\ s = s0 /\ trace = <<>>)
        /\ RootIsRecord(s0) => NilFieldsSkipped(s0.elem, s.elem, <<>>, FALSE)
        /\ (RootIsRecord(s0) /\ \A i \in DOMAIN s0.elem.fields : IsNil(s0.elem.fields[i].val)) =>
                (ret = NoRet /\ s = s0)

\* ConvertFields went past a tagged nil slice and rendered the next field
C9_Witness ==
    /\ Returned /\ op = "ConvertFields" /\ markdown = "goldmark"
    /\ s0 = Ptr(Struct(<<Fld(TagOn, TRUE, NilSlice), Fld(TagOn, TRUE, Str("a"))>>))
    /\ s = Ptr(Struct(<<Fld(TagOn, TRUE, NilSlice), Fld(TagOn, TRUE, Str("A"))>>))
    /\ ret = [changed |-> TRUE, err |-> NoErr]

\* in the records reached through record fields, whatever the tags of those
\* fields: a string field is rendered exactly when it is settable and its
\* own tag is enabled
RECURSIVE LeafTagDecides(_, _, _)
LeafTagDecides(b, path, ro) ==
    \A i \in DOMAIN b.fields :
        LET fb == b.fields[i]
            p == Append(path, i)
            ro2 == ro \/ ~fb.exported
        IN IF HoldsRecord(fb.val)
           THEN IF fb.val.kind = "struct"
                THEN LeafTagDecides(fb.val, p, ro2)
                ELSE LeafTagDecides(fb.val.elem, Append(p, 0), ro2)
           ELSE fb.val.kind = "string" =>
                    (RenderedAt(p) <=> (AnnotationOn(fb.tag) /\ ~ro2))

\* C10: in tagged-only mode a field that holds a record, or a non-nil
\* pointer to one, is descended into whatever its tag, at every depth, and
\* inside it the tag of each string field decides whether it is rendered
\* (in a call that returns no error, for the strings that are settable).
C10_RecordsAlwaysDescended ==
    (Returned /\ TaggedOnly /\ RootIsRecord(s0) /\ ret.err = NoErr) =>
        LeafTagDecides(s0.elem, <<>>, FALSE)

\* ConvertFields rendered the tagged string of a record two levels down,
\* behind a field tagged off and an untagged one
C10_Witness ==
    /\ Returned /\ op = "ConvertFields" /\ markdown = "goldmark"
    /\ s0 = Ptr(Struct(<<Fld(TagOff, TRUE,
                Ptr(Struct(<<Fld(TagAbsent, TRUE,
                    Struct(<<Fld(TagAbsent, TRUE, Str("a")), Fld(TagOn, TRUE, Str("a"))>>))>>)))>>))
    /\ s = Ptr(Struct(<<Fld(TagOff, TRUE,
                Ptr(Struct(<<Fld(TagAbsent, TRUE,
                    Struct(<<Fld(TagAbsent, TRUE, Str("a")), Fld(TagOn, TRUE, Str("A"))>>))>>)))>>))

\* the texts of v that the policy of the call makes eligible: the settable
\* strings reached through pointers, slices, string-valued maps and, in a
\* record, through the fields that hold a record, have an enabled
\* annotation, or every field in all-fields mode
RECURSIVE EligibleTexts(_, _)
EligibleTexts(v, ro) ==
    CASE v.kind = "string" -> IF ro THEN {} ELSE {v.s}
      [] v.kind = "ptr" -> IF IsValid(v.elem) THEN EligibleTexts(v.elem, ro) ELSE {}
      [] v.kind = "slice" -> UNION {EligibleTexts(v.elems[i], ro) : i \in DOMAIN v.elems}
      [] v.kind = "map" ->
            IF v.vkind = "string" /\ ~ro THEN {v.m[k].s : k \in DOMAIN v.m} ELSE {}
      [] v.kind = "struct" ->
            UNION {IF HoldsRecord(v.fields[i].val) \/ ~TaggedOnly \/ AnnotationOn(v.fields[i].tag)
                   THEN EligibleTexts(v.fields[i].val, ro \/ ~v.fields[i].exported)
                   ELSE {} : i \in DOMAIN v.fields}
      [] OTHER -> {}

\* the renderer of the call gives t a rendered form other than t
RendersDifferent(t) ==
    Convert(markdown, t).err = NoErr /\ Convert(markdown, t).out # t

\* C11: a call that returns no error, convert or validate, returns changed =
\* true exactly when some eligible text of the record has a rendered form
\* different from its original form.
C11_ChangedIffSomeTextDiffers ==
    (Returned /\ RootIsRecord(s0) /\ ret.err = NoErr) =>
        (ret.changed <=> \E t \in EligibleTexts(s0.elem, FALSE) : RendersDifferent(t))

\* C12: under a non-nil pointer to a record, a field of a shape the engine
\* does not transform (an int, a bool, a slice of non-strings, a map of
\* non-strings, an array) contributes (false, nil) and is left as it was,
\* tagged or reached in all-fields mode: no call returns ErrInvalidType.
RECURSIVE OtherShape(_)
OtherShape(v) ==
    \/ v.kind \in {"int", "bool", "array"}
    \/ v.kind = "map" /\ v.vkind # "string"
    \/ v.kind = "slice" /\ v.elems # <<>> /\ \A i \in DOMAIN v.elems : OtherShape(v.elems[i])

C12_OtherShapesAreNoOps ==
    (Returned /\ RootIsRecord(s0)) =>
        /\ ~isInvalidType(ret.err)
        /\ \A i \in DOMAIN s0.elem.fields :
              OtherShape(s0.elem.fields[i].val) =>
                 /\ s.elem.fields[i] = s0.elem.fields[i]
                 /\ (Len(s0.elem.fields) = 1 => ret = NoRet)

\* the value found in the record v along a path of the trace: a field
\* index in a struct, 0 through a pointer, an index in a slice, a key in a map
RECURSIVE ValueAt(_, _)
ValueAt(v, path) ==
    IF path = <<>> THEN v
    ELSE LET h == Head(path)
             next == CASE v.kind = "struct" -> v.fields[h].val
                       [] v.kind = "ptr" -> v.elem
                       [] v.kind = "map" -> v.m[h]
                       [] OTHER -> v.elems[h]
         IN ValueAt(next, Tail(path))

SetIdx == {i \in DOMAIN trace : trace[i].ev = "set"}

\* C15 as claimed: the outcome of a call does not depend on the order in
\* which the keys of a map are visited: every order gives the returned
\* (changed, err) and the final contents this call gave.
C15_Original ==
    (Returned /\ RootIsRecord(s0)) =>
        \A ord \in Orders :
            LET r == process(markdown, s0, ~TaggedOnly, IsValidate, ord)
            IN r.changed = ret.changed /\ r.err = ret.err /\ r.v = s

\* the renderer of the call fails on some value of a map of the record and
\* renders another one
RECURSIVE MixedMap(_)
MixedMap(v) ==
    \/ /\ v.kind = "map" /\ v.vkind = "string"
       /\ \E j, k \in DOMAIN v.m :
             Convert(markdown, v.m[j].s).err # NoErr /\ Convert(markdown, v.m[k].s).err = NoErr
    \/ v.kind = "ptr" /\ IsValid(v.elem) /\ MixedMap(v.elem)
    \/ v.kind = "struct" /\ \E i \in DOMAIN v.fields : MixedMap(v.fields[i].val)

\* C15 as amended: when the renderer fails on every value of a map or on
\* none, every order of visiting the keys gives the same returned
\* (changed, err) and the same final contents.
C15_OrderIrrelevantUnlessMixed ==
    (Returned /\ RootIsRecord(s0) /\ ~MixedMap(s0)) =>
        \A ord \in Orders :
            LET r == process(markdown, s0, ~TaggedOnly, IsValidate, ord)
            IN r.changed = ret.changed /\ r.err = ret.err /\ r.v = s

\* ConvertFields rendered a tagged map of two entries, one of which renders
\* to itself
C15_Witness ==
    /\ Returned /\ op = "ConvertFields" /\ markdown = "goldmark"
    /\ s0 = Ptr(Struct(<<Fld(TagOn, TRUE, Map("string", <<Str("a"), Str("A")>>))>>))
    /\ s = Ptr(Struct(<<Fld(TagOn, TRUE, Map("string", <<Str("A"), Str("A")>>))>>))
    /\ ret = [changed |-> TRUE, err |-> NoErr]

\* C16: after a convert call in which a render failed, the text it failed
\* on holds its original text (what the renderer wrote is discarded), and
\* every text written earlier in the call holds its rendered text.
C16_FailedTextKeptNoRollback ==
    (Returned /\ IsConvert /\ FailedIdx # {}) =>
        /\ \A i \in FailedIdx :
              /\ ValueAt(s.elem, trace[i].path) = Str(trace[i].in)
              /\ ValueAt(s0.elem, trace[i].path) = Str(trace[i].in)
        /\ \A j \in SetIdx :
              /\ ValueAt(s0.elem, trace[j].path) = Str(trace[j].in)
              /\ ValueAt(s.elem, trace[j].path) = Str(trace[j].out)

\* ConvertFields rewrote the first field, failed on the second, which holds
\* its text and not the "part" the renderer wrote, and the first keeps its
\* rendered text
C16_Witness ==
    /\ Returned /\ op = "ConvertFields" /\ markdown = "picky"
    /\ s0 = Ptr(Struct(<<Fld(TagOn, TRUE, Str("a")), Fld(TagOn, TRUE, Str("x"))>>))
    /\ s = Ptr(Struct(<<Fld(TagOn, TRUE, Str("A")), Fld(TagOn, TRUE, Str("x"))>>))
    /\ ret.err = RenderErr("x")

\* ------------------------------------------------------------------ tags
\* The values of the `markdown` tag: the values the source enables, in every
\* mix of upper and lower case, and values it does not enable.
EnabledWords ==
    { <<"o", "n">>, <<"y", "e", "s">>, <<"1">>, <<"y">>, <<"e", "n", "a", "b", "l", "e">> }

UpperOf(c) ==
    CASE c = "o" -> "O" [] c = "n" -> "N" [] c = "y" -> "Y" [] c = "e" -> "E"
      [] c = "s" -> "S" [] c = "a" -> "A" [] c = "b" -> "B" [] c = "l" -> "L"
      [] OTHER -> c

CaseVariants(w) ==
    {v \in [DOMAIN w -> UNION {{w[i], UpperOf(w[i])} : i \in DOMAIN w}] :
        \A i \in DOMAIN w : v[i] \in {w[i], UpperOf(w[i])}}

OtherTagValues ==
    { <<>>, <<"o", "f", "f">>, <<"O", "F", "F">>, <<"O", "f", "f">>, <<"n", "o">>,
      <<"N", "O">>, <<"o">>, <<"n">>, <<"0">>, <<"o", "n", "n">>, <<"o", "n", " ">>,
      <<"y", "e">>, <<"e">>, <<"y", "y">>, <<"1", "1">>, <<"t", "r", "u", "e">>,
      <<"T", "R", "U", "E">>, <<"e", "n", "a", "b", "l", "e", "d">>,
      <<"E", "N", "A", "B", "L", "E", "D">>, <<"d", "i", "s", "a", "b", "l", "e">> }

TagValues == OtherTagValues \cup UNION {CaseVariants(w) : w \in EnabledWords}

\* a converter and a record of one string field carrying one of the tag values
InitTag ==
    /\ s \in {Ptr(Struct(<<Fld(tg, TRUE, Str("a"))>>)) : tg \in TagValues}
    /\ s0 = s
    /\ markdown \in Markdowns
    /\ pc = "ready"
    /\ op = "none"
    /\ ret = NoRet
    /\ trace = <<>>

SpecTag == InitTag /\ [][Next]_vars

\* the tag value is one of the enabled words, whatever the case of its letters
EqualFold(a, w) ==
    Len(a) = Len(w) /\ \A i \in DOMAIN w : a[i] = w[i] \/ a[i] = UpperOf(w[i])
EnabledValue(tag) == \E w \in EnabledWords : EqualFold(tag, w)

\* C13: the annotation of a field is enabled exactly when the value of its
\* `markdown` tag is, compared case-insensitively, one of on, yes, 1, y,
\* enable; every other value and an absent tag are disabled.  In
\* tagged-only mode the string field is rendered exactly in that case.
C13_EnabledTagValues ==
    (Returned /\ TaggedOnly /\ RootIsRecord(s0)) =>
        \A i \in DOMAIN s0.elem.fields :
            LET fd == s0.elem.fields[i]
            IN (fd.val.kind = "string" /\ fd.exported /\ Len(s0.elem.fields) = 1) =>
                  /\ RenderedAt(<<i>>) <=> EnabledValue(fd.tag)
                  /\ isStructFieldTagEnabled(s0.elem, i) <=> EnabledValue(fd.tag)

\* ConvertFields rendered the field tagged `markdown:"YeS"`
C13_Witness ==
    /\ Returned /\ op = "ConvertFields" /\ markdown = "goldmark"
    /\ s0 = Ptr(Struct(<<Fld(<<"Y", "e", "S">>, TRUE, Str("a"))>>))
    /\ s = Ptr(Struct(<<Fld(<<"Y", "e", "S">>, TRUE, Str("A"))>>))
    /\ ret = [changed |-> TRUE, err |-> NoErr]

\* ------------------------------------------------------------------ direct calls
\* The values the tests hand to fieldProcessor.convertMap directly, as
\* reflect.ValueOf(x): such a Value is neither addressable nor read-only.
DirectValues ==
    {Invalid, Str("a"), Slice(<<>>), NilMap("string"), Map("int", <<IntV(7)>>)}
    \cup {Map("string", m) : m \in StrMaps}

\* the root records with a field whose name is not exported
UnexportedRoots ==
    {r \in RootRecords : \E i \in DOMAIN r.fields : ~r.fields[i].exported}

InitDirect ==
    /\ s \in DirectValues \cup {Ptr(r) : r \in UnexportedRoots}
    /\ s0 = s
    /\ markdown \in Markdowns
    /\ pc = "ready"
    /\ op = "none"
    /\ ret = NoRet
    /\ trace = <<>>

\* fieldproc.convertMap(reflect.ValueOf(x)) on a field processor of the
\* converter, in either setting of ConvertAllFields and ValidateOnly
convertMapValue ==
    /\ pc = "ready"
    /\ \E ord \in Orders, allFields \in BOOLEAN, validateOnly \in BOOLEAN :
          LET fieldproc == FieldProcessor(markdown, allFields, validateOnly, ord)
              r == convertMap(fieldproc, s, Flag(FALSE, FALSE), <<>>)
          IN /\ s' = r.v
             /\ ret' = [changed |-> r.changed, err |-> r.err]
             /\ trace' = r.log
    /\ s0' = s
    /\ op' = "convertMap"
    /\ pc' = "returned"
    /\ UNCHANGED markdown

NextDirect ==
    \/ ConvertFields
    \/ ConvertAllFields
    \/ ValidateFields
    \/ ValidateAllFields
    \/ convertMapValue

SpecDirect == InitDirect /\ [][NextDirect]_vars

\* the fields of a record whose names are not exported, and the record
\* without them
UnexportedIdx(rec) == {i \in DOMAIN rec.fields : ~rec.fields[i].exported}
WithoutUnexported(rec) == Struct(SelectSeq(rec.fields, LAMBDA fd : fd.exported))

\* C14: a text that cannot be set in place is never written and never
\* produces an error, in any of the four modes.  A string mapping handed
\* to convertMap as a non-addressable value returns (false, nil) untouched
\* and unrendered.  A field whose name is not exported keeps its value and
\* everything below it, nothing below it is rendered, and the call returns
\* what it returns for the record without such fields: they are skipped
\* with (false, nil) and the traversal goes on with the next field.
C14_UnsettableSkipped ==
    Returned =>
        /\ (op = "convertMap" /\ s0.kind = "map") =>
              ret = NoRet /\ s = s0 /\ trace = <<>>
        /\ (op # "convertMap" /\ RootIsRecord(s0)) =>
              /\ \A i \in UnexportedIdx(s0.elem) :
                    /\ s.elem.fields[i] = s0.elem.fields[i]
                    /\ ~RenderedUnder(<<i>>)
                    /\ (i < Len(s0.elem.fields)
                        /\ (\A j \in 1..i : j \in UnexportedIdx(s0.elem))
                        /\ EligibleString(s0.elem.fields[i + 1], FALSE))
                          => RenderedAt(<<i + 1>>)
              /\ \E ord \in Orders :
                    LET r == process(markdown, Ptr(WithoutUnexported(s0.elem)),
                                     ~TaggedOnly, IsValidate, ord)
                    IN r.changed = ret.changed /\ r.err = ret.err

====
